---- MODULE Spec2Model ----
(***************************************************************************)
(* Model of iran_national_code.py: validate_iran_national_code and the     *)
(* module's self-test loop.                                                *)
(*                                                                         *)
(* A text is a sequence of characters; a character is a one-element name.  *)
(* ASCII characters are written as themselves, the non-ASCII decimal       *)
(* digits by their code point ("U+06F0" is EXTENDED ARABIC-INDIC DIGIT     *)
(* ZERO, and so on).                                                       *)
(***************************************************************************)
EXTENDS Integers, Sequences, FiniteSets, TLC

(* ------------------------------ bounds --------------------------------- *)
\* longest text of the exhaustive short-text family
MaxTextLen == 3
\* integer inputs range over -MaxInt..MaxInt (plus a few named ones)
MaxInt == 30
\* most digits added around a 10-digit code to build an over-length input
MaxExtra == 1
\* integer inputs are also multiplied by 10^e, e up to MaxExp
MaxExp == 2

(* ------------------------------- state --------------------------------- *)
VARIABLES
  pc,        \* "call", "returned", "revalidated", "main", "exit"
  raw_code,  \* the argument of the call
  result,    \* what the call returned
  again,     \* what validating result's normalized code returned
  idx,       \* position of the self-test loop in tests
  printed,   \* the lines the self-test printed
  int_max_str_digits  \* the interpreter's sys.get_int_max_str_digits()

vars == <<pc, raw_code, result, again, idx, printed, int_max_str_digits>>

(* ----------------------------- characters ------------------------------ *)
AsciiDigits == {"0", "1", "2", "3", "4", "5", "6", "7", "8", "9"}

\* Decimal digits (Unicode category Nd) outside ASCII that the inputs use:
\* Persian zero, Persian one, Arabic-Indic three.
NonAsciiDigits == {"U+06F0", "U+06F1", "U+0663"}

\* Characters that are not decimal digits.
Separators == {" ", "-", "X"}

\* str.isdecimal / what \d matches on a str pattern (re.UNICODE is the
\* default for str patterns): every Unicode decimal digit.
IsDecimalDigit(c) == c \in AsciiDigits \cup NonAsciiDigits

\* the character of a digit value 0..9, as str(int) produces it
DigitChar(d) == <<"0", "1", "2", "3", "4", "5", "6", "7", "8", "9">>[d + 1]

\* int(c) for a one-character string c that is a decimal digit
PyInt(c) ==
  CASE c = "0" -> 0 [] c = "1" -> 1 [] c = "2" -> 2 [] c = "3" -> 3
    [] c = "4" -> 4 [] c = "5" -> 5 [] c = "6" -> 6 [] c = "7" -> 7
    [] c = "8" -> 8 [] c = "9" -> 9
    [] c = "U+06F0" -> 0 [] c = "U+06F1" -> 1 [] c = "U+0663" -> 3

(* ------------------------------- values -------------------------------- *)
\* raw_code: None, an int or a str.  Python's int is unbounded: the int
\* value [int |-> n, exp |-> e] is the integer n * 10^e.
NoneValue == [kind |-> "none", int |-> 0, exp |-> 0, text |-> <<>>]
IntValue(n, e) == [kind |-> "int", int |-> n, exp |-> e, text |-> <<>>]
StrValue(s) == [kind |-> "str", int |-> 0, exp |-> 0, text |-> s]

\* the returned tuple; raised names the exception when the call raises
Result(code, ok, msg) ==
  [normalized_code |-> code, is_valid |-> ok, message |-> msg, raised |-> "none"]
Raised(exc) ==
  [normalized_code |-> <<>>, is_valid |-> FALSE, message |-> "", raised |-> exc]
NoResult == Raised("not called")

(* --------------------------- str(raw_code) ----------------------------- *)
RECURSIVE DecimalDigits(_)
DecimalDigits(n) ==
  IF n < 10 THEN <<DigitChar(n)>>
  ELSE Append(DecimalDigits(n \div 10), DigitChar(n % 10))

Abs(n) == IF n < 0 THEN -n ELSE n

\* the decimal digits of |n * 10^e|
Magnitude(raw) ==
  IF raw.int = 0 THEN <<"0">>
  ELSE DecimalDigits(Abs(raw.int)) \o [i \in 1..raw.exp |-> "0"]

\* CPython's default limit on the digits of an int <-> str conversion
\* (sys.int_info.default_max_str_digits); 0 means the interpreter has no limit
DefaultMaxStrDigits == 4300

\* str(int) raises ValueError when the int has more digits than the limit
StrRaises(raw) ==
  /\ raw.kind = "int"
  /\ int_max_str_digits > 0
  /\ (IF raw.int = 0 THEN 1 ELSE Len(DecimalDigits(Abs(raw.int))) + raw.exp)
       > int_max_str_digits

\* str(raw_code), when it returns
PyStr(raw) ==
  IF raw.kind = "int"
  THEN IF raw.int < 0 THEN <<"-">> \o Magnitude(raw) ELSE Magnitude(raw)
  ELSE raw.text

(* ------------------------ the validator's steps ------------------------ *)
CodeLen == 10

\* re.sub(r"\D", "", s)
StripNonDigits(s) == SelectSeq(s, IsDecimalDigit)

RECURSIVE Zeros(_)
Zeros(n) == IF n <= 0 THEN <<>> ELSE <<"0">> \o Zeros(n - 1)

\* str.zfill(width)
Zfill(s, width) ==
  IF Len(s) >= width THEN s
  ELSE IF Len(s) > 0 /\ s[1] \in {"+", "-"}
       THEN <<s[1]>> \o Zeros(width - Len(s)) \o SubSeq(s, 2, Len(s))
       ELSE Zeros(width - Len(s)) \o s

\* plausible slips in the length test
TooLongFromTen(digits) == Len(digits) >= CodeLen
TooLongFromTwelve(digits) == Len(digits) > CodeLen + 1

\* elif len(digits) > 10
TooLong(digits) == Len(digits) > CodeLen

CharSet(s) == {s[i] : i \in 1..Len(s)}

\* a plausible slip: the test compares against 0 and never fires
AllIdenticalNever(normalized) == Cardinality(CharSet(normalized)) = 0

\* len(set(normalized)) == 1
AllIdentical(normalized) == Cardinality(CharSet(normalized)) = 1

\* a plausible slip: weights 9 down to 1
WeightFromNine(i) == 9 - i

\* the weight (10 - i) of the digit at 0-based index i
Weight(i) == 10 - i

\* sum(int(normalized[i]) * (10 - i) for i in range(k))
RECURSIVE WeightedSum(_, _)
WeightedSum(normalized, k) ==
  IF k = 0 THEN 0
  ELSE WeightedSum(normalized, k - 1) + PyInt(normalized[k]) * Weight(k - 1)

Total(normalized) == WeightedSum(normalized, 9)

\* a plausible slip in the boundary of the remainder rule
CheckMatchesBelowOne(check, remainder) ==
  \/ remainder < 1 /\ check = remainder
  \/ remainder >= 1 /\ check = 11 - remainder

\* the condition of lines 68-69
CheckMatches(check, remainder) ==
  \/ remainder < 2 /\ check = remainder
  \/ remainder >= 2 /\ check = 11 - remainder

\* step 4: int() raises ValueError on a character that is not a digit
ChecksumCheck(normalized) ==
  IF \E i \in 1..Len(normalized) : ~IsDecimalDigit(normalized[i])
  THEN Raised("ValueError")
  ELSE LET check == PyInt(normalized[Len(normalized)])
           remainder == Total(normalized) % 11
       IN IF CheckMatches(check, remainder)
          THEN Result(normalized, TRUE, "valid national code")
          ELSE Result(normalized, FALSE, "checksum mismatch")

\* from the assertion to the end of the function
AfterLength(digits) ==
  IF Len(digits) # CodeLen THEN Raised("AssertionError")
  ELSE IF AllIdentical(digits)
       THEN Result(digits, FALSE, "all digits identical")
       ELSE ChecksumCheck(digits)

validate_iran_national_code(raw) ==
  IF raw.kind = "none" THEN Result(<<>>, FALSE, "empty input")
  ELSE IF StrRaises(raw) THEN Raised("ValueError")
  ELSE LET digits == StripNonDigits(PyStr(raw))
       IN IF digits = <<>> THEN Result(<<>>, FALSE, "no digits found")
          ELSE IF Len(digits) < CodeLen THEN AfterLength(Zfill(digits, CodeLen))
          ELSE IF TooLong(digits) THEN Result(<<>>, FALSE, "more than 10 digits")
          ELSE AfterLength(digits)

(* ------------------------------ inputs --------------------------------- *)
\* the self-test list
tests ==
  << <<"0", "3", "7", "1", "5", "9", "1", "3", "3", "6">>,
     <<"1", "1", "1", "1", "1", "1", "1", "1", "1", "1">>,
     <<"2", "2", "2", "2", "2", "2", "2", "2", "2", "2">>,
     <<"0", "9", "0", " ", "1", "2", "3", " ", "4", "5", "6", "X">>,
     <<"1", "2", "3">>,
     <<"0", "0", "6", "7", "7", "4", "9", "8", "2", "X">> >>

\* the items the self-test annotates "valid"
AnnotatedValid == {tests[1], tests[4], tests[6]}

RepDigit(c) == [i \in 1..CodeLen |-> c]

ShortAlphabet == {"0", "1", "2", "7", " ", "-", "X", "U+06F0", "U+06F1"}
ShortTexts == UNION {[1..k -> ShortAlphabet] : k \in 0..MaxTextLen}

LongAlphabet == AsciiDigits \cup {"-", "U+06F1", "U+0663"}

\* ten-digit codes named by the self-test and the documentation
Code0371591336 == <<"0", "3", "7", "1", "5", "9", "1", "3", "3", "6">>
Code0371591333 == <<"0", "3", "7", "1", "5", "9", "1", "3", "3", "3">>
Code0090123456 == <<"0", "0", "9", "0", "1", "2", "3", "4", "5", "6">>
Code0006774982 == <<"0", "0", "0", "6", "7", "7", "4", "9", "8", "2">>
Code0000000123 == <<"0", "0", "0", "0", "0", "0", "0", "1", "2", "3">>

Bases == {Code0371591336, Code0090123456, Code0006774982, RepDigit("1"), RepDigit("0")}

\* s with the characters at positions i and j replaced
Subst2(s, i, a, j, b) ==
  [k \in 1..Len(s) |-> IF k = i THEN a ELSE IF k = j THEN b ELSE s[k]]

\* ten-character texts: a base with any two characters replaced
TenTexts ==
  {Subst2(s, i, a, j, b) :
     s \in Bases, i \in 1..CodeLen, j \in 1..CodeLen, a \in LongAlphabet, b \in LongAlphabet}
  \cup {RepDigit(c) : c \in AsciiDigits \cup NonAsciiDigits}

\* ten-digit codes whose last digit varies: they include codes that pass
TenCores ==
  {Subst2(s, CodeLen, c, CodeLen, c) : s \in Bases, c \in AsciiDigits}

DigitRuns == UNION {[1..k -> AsciiDigits] : k \in 0..MaxExtra}

\* a ten-digit code with up to MaxExtra digits before or after it
Extended ==
  {pre \o s \o post :
     s \in TenCores,
     pre \in DigitRuns,
     post \in DigitRuns}

OverLong == {s \in Extended : Len(s) > CodeLen /\ Len(s) <= CodeLen + MaxExtra}

InsertAt(s, k, c) == SubSeq(s, 1, k) \o <<c>> \o SubSeq(s, k + 1, Len(s))

\* the same texts with one separator somewhere
Separated ==
  {InsertAt(s, k, c) : s \in TenCores \cup OverLong, k \in {0, 3, CodeLen}, c \in Separators}

TextInputs ==
  ShortTexts \cup TenTexts \cup OverLong \cup Separated \cup {tests[k] : k \in 1..Len(tests)}

IntInputs ==
  {IntValue(n, e) :
     n \in (-MaxInt..MaxInt) \cup {123, -123, 371591336, 90123456, 1111111111,
                                  -1111111111, 2147483647, 371591333},
     e \in 0..MaxExp}
  \cup {IntValue(n, e) :
          n \in {1, -1, 27}, e \in {DefaultMaxStrDigits - 1, DefaultMaxStrDigits}}

(* ---------------------------- transitions ------------------------------ *)

Init ==
  /\ result = NoResult
  /\ again = NoResult
  /\ idx = 1
  /\ printed = <<>>
  /\ int_max_str_digits \in {0, DefaultMaxStrDigits}
  /\ \/ /\ pc = "call"
        /\ \/ raw_code = NoneValue
           \/ raw_code \in IntInputs
           \/ \E s \in TextInputs : raw_code = StrValue(s)
     \/ /\ pc = "main"
        /\ raw_code = NoneValue

\* a caller calls validate_iran_national_code(raw_code)
Call ==
  /\ pc = "call"
  /\ result' = validate_iran_national_code(raw_code)
  /\ pc' = "returned"
  /\ UNCHANGED <<raw_code, again, idx, printed, int_max_str_digits>>

\* the caller validates the normalized code it got back
Revalidate ==
  /\ pc = "returned"
  /\ result.raised = "none"
  /\ result.normalized_code # <<>>
  /\ again' = validate_iran_national_code(StrValue(result.normalized_code))
  /\ pc' = "revalidated"
  /\ UNCHANGED <<raw_code, result, idx, printed, int_max_str_digits>>

\* one iteration of the self-test loop: validate tests[idx], print a line
SelfTestStep ==
  /\ pc = "main"
  /\ idx <= Len(tests)
  /\ LET item == tests[idx]
         r == validate_iran_national_code(StrValue(item))
     IN /\ raw_code' = StrValue(item)
        /\ result' = r
        /\ r.raised = "none"
        /\ printed' = Append(printed,
                             [item |-> item,
                              code |-> IF r.normalized_code # <<>>
                                       THEN r.normalized_code ELSE <<"U+00AC">>,
                              ok |-> r.is_valid,
                              msg |-> r.message])
  /\ idx' = idx + 1
  /\ UNCHANGED <<pc, again, int_max_str_digits>>

\* the loop is over
SelfTestExit ==
  /\ pc = "main"
  /\ idx > Len(tests)
  /\ pc' = "exit"
  /\ UNCHANGED <<raw_code, result, again, idx, printed, int_max_str_digits>>

Next == Call \/ Revalidate \/ SelfTestStep \/ SelfTestExit

Spec == Init /\ [][Next]_vars

(* ------------------------- properties ---------------------------------- *)
\* the call (or a self-test iteration) has returned
HasReturned == result # NoResult

\* an argument was supplied
Present == raw_code.kind # "none"
\* the argument has a textual form: str(raw_code) returned
HasText == Present /\ ~StrRaises(raw_code)
RawText == PyStr(raw_code)

IsAsciiDigit(c) == c \in AsciiDigits
AsciiSubseq(s) == SelectSeq(s, IsAsciiDigit)
AllAsciiDigits(s) == \A i \in 1..Len(s) : s[i] \in AsciiDigits
PadLeft(s) == [i \in 1..CodeLen |-> IF i <= CodeLen - Len(s) THEN "0" ELSE s[i - (CodeLen - Len(s))]]
DigitCount(s) == Cardinality({i \in 1..Len(s) : IsDecimalDigit(s[i])})
Txt(s) == [i \in 1..Len(s) |-> s[i]]

\* the checksum rule as the specification words it, on a 10-digit code d
RuleTotal(d) ==
  PyInt(d[1]) * 10 + PyInt(d[2]) * 9 + PyInt(d[3]) * 8 + PyInt(d[4]) * 7 + PyInt(d[5]) * 6
    + PyInt(d[6]) * 5 + PyInt(d[7]) * 4 + PyInt(d[8]) * 3 + PyInt(d[9]) * 2
RuleHolds(d) ==
  LET r == RuleTotal(d) % 11
  IN \/ r < 2 /\ PyInt(d[10]) = r
     \/ r >= 2 /\ PyInt(d[10]) = 11 - r

\* C1: a non-empty normalized code has exactly 10 characters, each an ASCII
\* digit '0'..'9', whatever the input (non-ASCII decimal digits included).
C1_NonEmptyCodeIsTenAsciiDigits ==
  (HasReturned /\ result.raised = "none" /\ result.normalized_code # <<>>)
    => /\ Len(result.normalized_code) = 10
       /\ AllAsciiDigits(result.normalized_code)

\* C2: is_valid = true implies the normalized code is non-empty, has at least
\* two distinct digit values (numeric values) and its last digit satisfies the
\* mod-11 rule computed from its first nine digits.
C2_ValidImpliesDistinctValuesAndChecksum ==
  (HasReturned /\ result.is_valid)
    => /\ result.normalized_code # <<>>
       /\ Cardinality({PyInt(result.normalized_code[i]) :
                         i \in 1..Len(result.normalized_code)}) >= 2
       /\ RuleHolds(result.normalized_code)

C4_NormalizedIsPaddedAsciiDigits ==
  (HasReturned /\ HasText /\ Len(AsciiSubseq(RawText)) \in 1..10)
    => LET padded == PadLeft(AsciiSubseq(RawText))
           direct == validate_iran_national_code(StrValue(padded))
       IN /\ result.raised = "none"
          /\ result.normalized_code = padded
          /\ result.is_valid = direct.is_valid
          /\ result.message = direct.message

C6_DegenerateRejected ==
  /\ \A c \in AsciiDigits :
       (HasReturned /\ HasText /\ Txt(RawText) = RepDigit(c))
         => result = Result(RepDigit(c), FALSE, "all digits identical")
  /\ (HasReturned /\ HasText /\ DigitCount(RawText) \in 1..10
        /\ \A i \in 1..Len(RawText) : IsDecimalDigit(RawText[i]) => RawText[i] = "0")
       => result = Result(RepDigit("0"), FALSE, "all digits identical")

C6_Witness ==
  /\ pc = "returned"
  /\ raw_code = IntValue(0, 0)
  /\ result = Result(RepDigit("0"), FALSE, "all digits identical")

\* C7: the self-test items annotated valid ("0371591336", "090 123 456X",
\* "006774982X") return is_valid = true with "valid national code", and
\* "1111111111", "2222222222", "123" return is_valid = false.
C7_SelfTestAnnotationsHold ==
  (HasReturned /\ raw_code.kind = "str")
    => /\ raw_code.text \in AnnotatedValid
            => result.is_valid /\ result.message = "valid national code"
       /\ raw_code.text \in {tests[2], tests[3], tests[5]} => ~result.is_valid

\* C8: the function is total over None, every integer and every text: it
\* never raises, the assertion
\* len(digits) == 10 never fails, every result is one row of the outcome
\* table, "empty input" iff the input is absent, "no digits found" iff it is
\* present without a digit character, and an empty code is never valid.
C8_TotalAndTabular ==
  HasReturned =>
    LET code == result.normalized_code
        msg == result.message
    IN /\ result.raised = "none"
       /\ \/ code = <<>> /\ ~result.is_valid
               /\ msg \in {"empty input", "no digits found", "more than 10 digits"}
          \/ Len(code) = 10 /\ ~result.is_valid
               /\ msg \in {"all digits identical", "checksum mismatch"}
          \/ Len(code) = 10 /\ result.is_valid /\ msg = "valid national code"
       /\ (msg = "empty input") <=> ~Present
       /\ (msg = "no digits found") <=> (Present /\ DigitCount(RawText) = 0)
       /\ (msg = "more than 10 digits") <=> (Present /\ DigitCount(RawText) > 10)
       /\ code = <<>> => ~result.is_valid

\* C9: validating the non-empty normalized code of a result returns the same
\* normalized code, the same validity flag and the same message.
C9_RevalidationIdempotent ==
  pc = "revalidated" => again = result

C9_Witness ==
  /\ pc = "revalidated"
  /\ raw_code = StrValue(<<"2", "-", "7">>)
  /\ result.normalized_code = <<"0", "0", "0", "0", "0", "0", "0", "0", "2", "7">>
  /\ result.is_valid
  /\ again.is_valid

\* C10: each of the ten all-identical codes has weighted total 54*d and its
\* last digit passes the mod-11 rule of the checksum step, so only the
\* degeneracy check rejects it.
C10_DegenerateCodesPassChecksum ==
  \A c \in AsciiDigits :
    (HasReturned /\ HasText /\ Txt(RawText) = RepDigit(c))
      => /\ Total(result.normalized_code) = 54 * PyInt(c)
         /\ ChecksumCheck(result.normalized_code)
              = Result(RepDigit(c), TRUE, "valid national code")
         /\ result.message = "all digits identical"

C10_Witness ==
  /\ pc = "returned"
  /\ raw_code = StrValue(RepDigit("9"))
  /\ Total(result.normalized_code) = 486
  /\ result.message = "all digits identical"

====
